---------------------------- MODULE Spec2Model ----------------------------
(***************************************************************************)
(* A model of the Huffman coder of src/huffman.js: one Huffman instance    *)
(* (its fields are the variables below) driven by encode and decode calls  *)
(* the way main() drives it.  Every call is synchronous, so each call is   *)
(* one action; the methods are operators that take the instance record     *)
(* `self` and return the record the call leaves behind.                    *)
(*                                                                         *)
(* Conventions.  A bitcode (a JS string of '0'/'1') is a sequence of 0/1.  *)
(* A JS object is a record; `node.l` being truthy is "l" \in DOMAIN node.  *)
(* The debugging-only fields `char` and `code` of a node are left out.     *)
(* Array.prototype.sort is stable (ECMAScript 2019; older engines are      *)
(* stable too for the arrays of at most 10 entries the bounds produce).    *)
(***************************************************************************)
EXTENDS Integers, Sequences, FiniteSets, TLC

VARIABLES
  eob, table, root, treeBits, dataBits,      \* Huffman fields (clear, 12-16)
  bytesRemaining, bitsRemaining, bits,       \* Huffman bit cursor (19-21)
  data, payload,                             \* main(): the input and encode's result
  input, decoded,                            \* the buffer last given to decode, its result
  op, outcome,                               \* the last call and how it ended
  occurrences,                               \* history: generateTree's list before merging
  trace,                                     \* history: what readBit did in the last decode
  before                                     \* history: the call before the last call

vars == <<eob, table, root, treeBits, dataBits, bytesRemaining, bitsRemaining, bits,
          data, payload, input, decoded, op, outcome, occurrences, trace, before>>

---------------------------------------------------------------------------
(* Bounds of the model *)

\* longest input buffer given to encode
MaxLen == 3
\* deepest readTreeRecurse nesting before the engine's call stack is taken
\* to be exhausted (RangeError: Maximum call stack size exceeded)
MaxDepth == 12

\* longest input buffer of the specification of tree and table generation
MaxGenLen == 6

\* the byte values input buffers are drawn from
ByteVals == {0, 65, 66}
GenByteVals == {0, 65, 66, 255}

BuffersUpTo(vals, n) == UNION {[1..k -> vals] : k \in 0..n}

Inputs == BuffersUpTo(ByteVals, MaxLen)
GenInputs == BuffersUpTo(GenByteVals, MaxGenLen)

---------------------------------------------------------------------------
(* JavaScript values *)

\* `undefined`; ToInt32(undefined) is 0
Undefined == -1
ToInt32(x) == IF x = Undefined THEN 0 ELSE x
\* the value of this.eob after clear(): undefined
UndefinedCode == <<Undefined>>
\* {}
EmptyObject == [x \in {} |-> x]

\* input[i] of a Buffer, 0-based; undefined outside it
At(buf, i) == IF i >= 0 /\ i < Len(buf) THEN buf[i + 1] ELSE Undefined
\* Buffer.from(array): every element is stored & 255
BufferFrom(arr) == [i \in 1..Len(arr) |-> ToInt32(arr[i]) % 256]
\* node.l is truthy; node.eob is truthy
HasL(node) == "l" \in DOMAIN node
IsEob(node) == "eob" \in DOMAIN node /\ node.eob

\* Then(x, F) is F applied to the value of x.  TLC may compute an operator's
\* argument anew at each use of it; Then computes x once, so that the state a
\* loop or a call sequence threads through is computed step by step.
Then(x, F(_)) == CHOOSE y \in {F(v) : v \in {x}} : TRUE

---------------------------------------------------------------------------
(* Constructor / clear *)

Self == [eob |-> eob, table |-> table, root |-> root, treeBits |-> treeBits,
         dataBits |-> dataBits, bytesRemaining |-> bytesRemaining,
         bitsRemaining |-> bitsRemaining, bits |-> bits]

\* clear() without the reset of the bit cursor
clearFieldsOnly(self) ==
  [self EXCEPT !.eob = UndefinedCode, !.table = EmptyObject, !.root = EmptyObject,
               !.treeBits = 0, !.dataBits = 0]

clear(self) ==
  [self EXCEPT !.eob = UndefinedCode, !.table = EmptyObject, !.root = EmptyObject,
               !.treeBits = 0, !.dataBits = 0,
               !.bytesRemaining = -1, !.bitsRemaining = -1, !.bits = 0]

\* new Huffman(): clear() on the new object
constructor ==
  [eob |-> UndefinedCode, table |-> EmptyObject, root |-> EmptyObject,
   treeBits |-> 0, dataBits |-> 0,
   bytesRemaining |-> -1, bitsRemaining |-> -1, bits |-> 0]

---------------------------------------------------------------------------
(* Bit writer.  A writer value w is [self, output]. *)

writeBit(w, v) ==
  LET s == w.self
      flush == s.bitsRemaining < 1
      out1 == IF flush /\ s.bitsRemaining = 0 THEN Append(w.output, s.bits) ELSE w.output
      b0 == IF flush THEN 0 ELSE s.bits
      r0 == IF flush THEN 8 ELSE s.bitsRemaining
  IN [self |-> [s EXCEPT !.bits = b0 * 2 + (v % 2), !.bitsRemaining = r0 - 1],
      output |-> out1]

RECURSIVE writeUIntFrom(_, _, _, _)
writeUIntFrom(w, v, bitCount, i) ==
  IF i < bitCount
  THEN Then(writeBit(w, (v \div (2 ^ (bitCount - 1 - i))) % 2),
            LAMBDA w1 : writeUIntFrom(w1, v, bitCount, i + 1))
  ELSE w

writeUInt(w, v) == writeUIntFrom(w, v, 8, 0)

RECURSIVE writeCodeFrom(_, _, _)
writeCodeFrom(w, code, i) ==
  IF i <= Len(code)
  THEN Then(writeBit(w, IF code[i] = 0 THEN 0 ELSE 1),
            LAMBDA w1 : writeCodeFrom(w1, code, i + 1))
  ELSE w

writeCode(w, code) == writeCodeFrom(w, code, 1)

writeFinish(w) ==
  LET s == w.self IN
  IF s.bitsRemaining > 0
  THEN [self |-> [s EXCEPT !.bits = 0, !.bitsRemaining = 0],
        output |-> Append(w.output, s.bits * (2 ^ s.bitsRemaining))]
  ELSE w

---------------------------------------------------------------------------
(* Tree / table generation *)

\* the path as it is, also when empty
LeafCodeAsIs(code) == code
\* '0' appended for the right child too
RightCodeZero(code) == Append(code, 0)

\* the code a leaf gets from the path that leads to it
LeafCode(code) == IF code = <<>> THEN <<0>> ELSE code
LeftCode(code) == Append(code, 0)
RightCode(code) == Append(code, 1)

RECURSIVE generateTableRecurse(_, _, _)
generateTableRecurse(self, node, code) ==
  IF HasL(node)
  THEN Then(generateTableRecurse(self, node.l, LeftCode(code)),
            LAMBDA s1 : generateTableRecurse(s1, node.r, RightCode(code)))
  ELSE IF IsEob(node)
       THEN [self EXCEPT !.eob = LeafCode(code)]
       ELSE [self EXCEPT !.table = (node.value :> LeafCode(code)) @@ self.table]

generateTable(self) ==
  generateTableRecurse([self EXCEPT !.table = EmptyObject], self.root, <<>>)

\* occurrenceMap: a JS object, as its keys in insertion order and its values
NewEntry(byte) == [value |-> byte, count |-> 0]

CountByte(map, byte) ==
  LET m1 == IF byte \in DOMAIN map.vals THEN map
            ELSE [keys |-> Append(map.keys, byte),
                  vals |-> (byte :> NewEntry(byte)) @@ map.vals]
  IN [m1 EXCEPT !.vals[byte].count = @ + 1]

RECURSIVE CountFrom(_, _, _)
CountFrom(map, buf, i) ==
  IF i > Len(buf) THEN map
  ELSE Then(CountByte(map, buf[i]), LAMBDA m1 : CountFrom(m1, buf, i + 1))

occurrenceMap(buf) == CountFrom([keys |-> <<>>, vals |-> EmptyObject], buf, 1)

\* the keys of an object whose keys are all array indices: ascending numeric order
RECURSIVE Ascending(_)
Ascending(S) ==
  IF S = {} THEN <<>>
  ELSE LET m == CHOOSE x \in S : \A y \in S : x <= y IN <<m>> \o Ascending(S \ {m})

OwnKeys(map) == Ascending(DOMAIN map.vals)

\* the values in insertion order, as for keys that are not array indices
ObjectValuesInsertionOrder(map) == [i \in 1..Len(map.keys) |-> map.vals[map.keys[i]]]

ObjectValues(map) ==
  Then(OwnKeys(map), LAMBDA ks : [i \in 1..Len(ks) |-> map.vals[ks[i]]])

\* End-Of-Block counted as one occurrence
EobEntryCountOne == [value |-> 0, count |-> 1, eob |-> TRUE]

EobEntry == [value |-> 0, count |-> 0, eob |-> TRUE]

Occurrences(buf) ==
  Then(occurrenceMap(buf), LAMBDA map : Append(ObjectValues(map), EobEntry))

\* occurrences.sort((a, b) => a.count - b.count), stable
RECURSIVE InsertByCount(_, _)
InsertByCount(sorted, e) ==
  IF sorted = <<>> THEN <<e>>
  ELSE LET last == sorted[Len(sorted)] IN
       IF last.count - e.count > 0
       THEN Append(InsertByCount(SubSeq(sorted, 1, Len(sorted) - 1), e), last)
       ELSE Append(sorted, e)

RECURSIVE SortFrom(_, _, _)
SortFrom(sorted, s, i) ==
  IF i > Len(s) THEN sorted
  ELSE Then(InsertByCount(sorted, s[i]), LAMBDA s1 : SortFrom(s1, s, i + 1))

sort(s) == SortFrom(<<>>, s, 1)

\* one pass of the while loop: sort, shift, shift, push
MergeOnce(occ) ==
  Then(sort(occ), LAMBDA s :
    Append(SubSeq(s, 3, Len(s)),
           [count |-> s[2].count + s[1].count, l |-> s[2], r |-> s[1]]))

RECURSIVE Merge(_)
Merge(occ) ==
  IF Len(occ) > 1 THEN Then(MergeOnce(occ), LAMBDA o1 : Merge(o1)) ELSE occ

generateTree(self, buf) ==
  Then(Occurrences(buf), LAMBDA occ :
    Then(Merge(occ), LAMBDA rest : [self EXCEPT !.root = rest[Len(rest)]]))

---------------------------------------------------------------------------
(* Tree serialization.  The result is [self, output, bitCount]. *)

Writer(t) == [self |-> t.self, output |-> t.output]

RECURSIVE writeTreeRecurse(_, _)
writeTreeRecurse(w, node) ==
  IF HasL(node)
  THEN Then(writeBit(w, 0), LAMBDA w1 :
         Then(writeTreeRecurse(w1, node.l), LAMBDA wl :
           Then(writeTreeRecurse(Writer(wl), node.r), LAMBDA wr :
             [self |-> wr.self, output |-> wr.output,
              bitCount |-> 1 + wl.bitCount + wr.bitCount])))
  ELSE Then(writeBit(w, 1), LAMBDA w1 :
         Then(writeBit(w1, IF IsEob(node) THEN 1 ELSE 0), LAMBDA w2 :
           Then(writeUInt(w2, node.value), LAMBDA w3 :
             [self |-> w3.self, output |-> w3.output, bitCount |-> 1 + 1 + 8])))

writeTree(w) ==
  Then(writeTreeRecurse(w, w.self.root), LAMBDA t :
    [self |-> [t.self EXCEPT !.treeBits = t.bitCount], output |-> t.output])

---------------------------------------------------------------------------
(* Encode.  The result is [self, payload]. *)

RECURSIVE writeData(_, _, _)
writeData(w, buf, i) ==
  IF i <= Len(buf)
  THEN Then(writeCode(w, w.self.table[buf[i]]), LAMBDA w1 : writeData(w1, buf, i + 1))
  ELSE w

encode(self, buf) ==
  Then(generateTree(clear(self), buf), LAMBDA s1 :
    Then(generateTable(s1), LAMBDA s2 :
      Then(writeTree([self |-> s2, output |-> <<>>]), LAMBDA w1 :
        Then(writeData(w1, buf, 1), LAMBDA w2 :
          Then(writeCode(w2, w2.self.eob), LAMBDA w3 :
            Then(writeFinish(w3), LAMBDA w4 :
              [self |-> w4.self, payload |-> BufferFrom(w4.output)]))))))

---------------------------------------------------------------------------
(* Bit reader.  A reader value rd is [self, trace, err, val]: the instance, *)
(* the history of the reads, the exception in flight ("none" when there is  *)
(* none) and the value the last call returned.                              *)

NoTrace == [nread |-> 0, pastEnd |-> FALSE, fabricated |-> 0, restarted |-> FALSE,
            fromUndefined |-> FALSE, eobFound |-> FALSE]

Reader(self) == [self |-> self, trace |-> NoTrace, err |-> "none", val |-> 0]

readBitAvailable(self, buf) ==
  IF self.bitsRemaining > 0 THEN TRUE
  ELSE IF self.bytesRemaining = -1 THEN Len(buf) > 0
  ELSE self.bytesRemaining > 0

\* input.bytesRemaining: a Buffer has no such property
InputBytesRemaining(buf) == Undefined
\* x == 0 for x a number or undefined
LooseEqualsZero(x) == x # Undefined /\ x = 0

readBit(rd, buf) ==
  LET s == rd.self
      refill == s.bitsRemaining < 1
      reinit == refill /\ s.bytesRemaining < 0
      br1 == IF reinit THEN Len(buf) ELSE s.bytesRemaining
      fetched == At(buf, Len(buf) - br1)
      b == IF refill THEN fetched ELSE s.bits
      br2 == IF refill THEN br1 - 1 ELSE s.bytesRemaining
      rem == IF refill THEN 8 ELSE s.bitsRemaining
      undef == IF refill THEN fetched = Undefined ELSE rd.trace.fromUndefined
  IN IF rd.err # "none" THEN rd
     ELSE IF refill /\ LooseEqualsZero(InputBytesRemaining(buf))
     THEN [rd EXCEPT !.self.bytesRemaining = br1, !.err = "OutOfData",
                     !.trace.pastEnd = @ \/ br1 = 0]
     ELSE [rd EXCEPT
             !.self.bytesRemaining = br2,
             !.self.bitsRemaining = rem - 1,
             !.self.bits = ToInt32(b) * 2,
             !.val = (ToInt32(b) \div 128) % 2,
             !.trace.nread = @ + 1,
             !.trace.pastEnd = @ \/ (refill /\ br1 = 0),
             !.trace.fabricated = IF undef THEN @ + 1 ELSE @,
             !.trace.restarted = @ \/ (reinit /\ rd.trace.nread > 0),
             !.trace.fromUndefined = undef]

RECURSIVE readUIntFrom(_, _, _, _, _)
readUIntFrom(rd, buf, bitCount, i, v) ==
  IF rd.err # "none" THEN rd
  ELSE IF i < bitCount
  THEN Then(readBit(rd, buf),
            LAMBDA r : readUIntFrom(r, buf, bitCount, i + 1, v * 2 + r.val))
  ELSE [rd EXCEPT !.val = v]

readUInt(rd, buf) == readUIntFrom(rd, buf, 8, 0, 0)

\* the node built from the leaf's EOB bit and value
ChildNode(eobBit, value) ==
  IF eobBit = 1 THEN [value |-> value, eob |-> TRUE] ELSE [value |-> value]

\* The result's val is the node read.  depth counts the nested calls.
RECURSIVE readTreeRecurse(_, _, _)
readTreeRecurse(rd, buf, depth) ==
  IF depth > MaxDepth THEN [rd EXCEPT !.err = "RangeError"]
  ELSE Then(readBit(rd, buf), LAMBDA which :
    IF which.err # "none" THEN which
    ELSE IF which.val = 0
    THEN Then(readTreeRecurse(which, buf, depth + 1), LAMBDA l :
           IF l.err # "none" THEN l
           ELSE Then(readTreeRecurse(l, buf, depth + 1), LAMBDA r :
                  IF r.err # "none" THEN r
                  ELSE [r EXCEPT !.val = [l |-> l.val, r |-> r.val]]))
    ELSE Then(readBit(which, buf), LAMBDA e :
           Then(readUInt(e, buf), LAMBDA u :
             IF u.err # "none" THEN u
             ELSE [u EXCEPT !.val = ChildNode(e.val, u.val)])))

readTree(rd, buf) ==
  Then(readTreeRecurse(rd, buf, 1), LAMBDA t :
    IF t.err # "none" THEN t ELSE [t EXCEPT !.self.root = t.val])

---------------------------------------------------------------------------
(* Decode.  The result is a reader value whose val is the output array. *)

\* if(n.l) { if(bit == '0') n = n.l else n = n.r }
Descend(n, bit) == IF HasL(n) THEN (IF bit = 0 THEN n.l ELSE n.r) ELSE n

RECURSIVE decodeLoop(_, _, _, _)
decodeLoop(rd, buf, n, output) ==
  IF ~readBitAvailable(rd.self, buf) THEN [rd EXCEPT !.val = output]
  ELSE Then(readBit(rd, buf), LAMBDA b :
    IF b.err # "none" THEN b
    ELSE Then(Descend(n, b.val), LAMBDA n1 :
      IF IsEob(n1) THEN [b EXCEPT !.val = output, !.trace.eobFound = TRUE]
      ELSE IF ~HasL(n1)
      THEN Then(Append(output, n1.value), LAMBDA o1 : decodeLoop(b, buf, b.self.root, o1))
      ELSE decodeLoop(b, buf, n1, output)))

decode(self, buf) ==
  Then(readTree(Reader(clear(self)), buf), LAMBDA t :
    IF t.err # "none" THEN t
    ELSE Then(decodeLoop(t, buf, t.self.root, <<>>), LAMBDA d :
           IF d.err # "none" THEN d ELSE [d EXCEPT !.val = BufferFrom(d.val)]))

---------------------------------------------------------------------------
(* Actions *)

SetFields(s) ==
  /\ eob' = s.eob
  /\ table' = s.table
  /\ root' = s.root
  /\ treeBits' = s.treeBits
  /\ dataBits' = s.dataBits
  /\ bytesRemaining' = s.bytesRemaining
  /\ bitsRemaining' = s.bitsRemaining
  /\ bits' = s.bits

Init ==
  /\ eob = constructor.eob
  /\ table = constructor.table
  /\ root = constructor.root
  /\ treeBits = constructor.treeBits
  /\ dataBits = constructor.dataBits
  /\ bytesRemaining = constructor.bytesRemaining
  /\ bitsRemaining = constructor.bitsRemaining
  /\ bits = constructor.bits
  /\ data = <<>>
  /\ payload = <<>>
  /\ input = <<>>
  /\ decoded = <<>>
  /\ op = "new"
  /\ outcome = "none"
  /\ occurrences = <<>>
  /\ trace = NoTrace
  /\ before = "none"

\* let payload = huffman.encode(data)
Encode(d) ==
  \E e \in {encode(Self, d)} :
  /\ SetFields(e.self)
  /\ data' = d
  /\ payload' = e.payload
  /\ op' = "encode"
  /\ outcome' = "none"
  /\ occurrences' = Occurrences(d)
  /\ input' = <<>>
  /\ decoded' = <<>>
  /\ trace' = NoTrace
  /\ before' = op

\* let decoded = huffman.decode(buf); a throw leaves decoded as it was
Decode(buf) ==
  \E r \in {decode(Self, buf)} :
  /\ SetFields(r.self)
  /\ input' = buf
  /\ decoded' = IF r.err = "none" THEN r.val ELSE decoded
  /\ op' = "decode"
  /\ outcome' = r.err
  /\ trace' = r.trace
  /\ before' = op
  /\ UNCHANGED <<data, payload, occurrences>>

\* main(): decode what encode returned
DecodePayload == payload # <<>> /\ Decode(payload)

\* decode of encode's result with its last byte removed
DecodeTruncated == payload # <<>> /\ Decode(SubSeq(payload, 1, Len(payload) - 1))

\* decode of the empty buffer
DecodeEmpty == Decode(<<>>)

Next ==
  \/ \E d \in Inputs : Encode(d)
  \/ DecodePayload
  \/ DecodeTruncated
  \/ DecodeEmpty

Spec == Init /\ [][Next]_vars

\* Tree and table generation alone: the first encode call of a new instance,
\* over a larger set of input buffers.
GenNext == \E d \in GenInputs : op = "new" /\ Encode(d)

GenSpec == Init /\ [][GenNext]_vars
---------------------------------------------------------------------------
(* What the claims speak of *)

\* a is a prefix of b (or equal to it)
IsPrefix(a, b) == Len(a) <= Len(b) /\ SubSeq(b, 1, Len(a)) = a

\* the concatenation of the input bytes' codes and the EOB code
RECURSIVE DataPayloadFrom(_, _, _, _)
DataPayloadFrom(tbl, e, buf, i) ==
  IF i <= Len(buf) THEN tbl[buf[i]] \o DataPayloadFrom(tbl, e, buf, i + 1) ELSE e

\* dataBits: the code lengths of all input bytes plus the EOB code length
DataBits(tbl, e, buf) == Len(DataPayloadFrom(tbl, e, buf, 1))

\* ceil(totalBits / 8)
TotalBytes(totalBits) == (totalBits + 7) \div 8

\* what encode(buf) returns, and leaves behind, on a fresh instance
FreshEncode(buf) == encode(constructor, buf)

\* treeBits + dataBits of encode(buf)
EncodedBits(buf) ==
  Then(FreshEncode(buf).self, LAMBDA s : s.treeBits + DataBits(s.table, s.eob, buf))

\* the last call was decode, of what the last encode returned
DecodedPayload == op = "decode" /\ payload # <<>> /\ input = payload

\* the codes of the table in some order, then the EOB code
AllCodes ==
  Then(Ascending(DOMAIN table), LAMBDA ks :
    [i \in 1..(Len(ks) + 1) |-> IF i <= Len(ks) THEN table[ks[i]] ELSE eob])

\* the number of times byte b occurs in buf
CountOf(buf, b) == Cardinality({i \in 1..Len(buf) : buf[i] = b})

\* the frequency entries in the order in which the byte values first occur
FirstOccurrenceOrder(buf) ==
  Then(occurrenceMap(buf), LAMBDA map :
    [i \in 1..Len(map.keys) |-> map.vals[map.keys[i]]])

---------------------------------------------------------------------------
(* Claims *)

\* C1 (as claimed): decode(encode(d)) returns a buffer equal to d, for every
\* buffer d.
C1_RoundTrip == DecodedPayload => (outcome = "none" /\ decoded = data)

\* C2 (as claimed): when the bits of a payload (here a non-empty one, such as
\* encode(d) with its last byte removed) are exhausted before an EOB leaf is
\* reached (a bit is requested past the end, or the decode loop ends with no
\* EOB leaf found), decode fails with OutOfData and returns no buffer.
C2_TruncatedFails ==
  (op = "decode" /\ input # <<>> /\ (trace.pastEnd \/ ~trace.eobFound)) =>
    outcome = "OutOfData"

\* C3 (as claimed): the payload encode returns has exactly
\* ceil((treeBits + dataBits) / 8) bytes.
C3_SizeAccounting ==
  op = "encode" => Len(payload) = TotalBytes(treeBits + DataBits(table, eob, data))

\* C4 (as claimed): decode of encode(d) stops at the first EOB leaf having read
\* exactly treeBits + dataBits bits, none of them past the EOB code, and never
\* re-reads the payload from its start.
C4_EobTermination ==
  DecodedPayload =>
    /\ trace.eobFound
    /\ trace.nread = EncodedBits(data)
    /\ ~trace.pastEnd
    /\ ~trace.restarted

\* C5: whatever calls were made before on the instance, encode(d) returns the
\* payload a fresh instance returns for d.
C5_CallIndependence == op = "encode" => payload = FreshEncode(data).payload

\* C5 witness: an encode call on an instance that a decode call has used last
C5_Witness == op = "encode" /\ before = "decode" /\ Len(data) = 2

\* C6: encode of the empty buffer writes the 10-bit tree 1 1 00000000 and the
\* 1-bit EOB code "0", 11 bits in 2 bytes; decode of that payload reads those
\* 11 bits and returns the empty buffer.
C6_EmptyInput ==
  /\ (op = "encode" /\ data = <<>>) =>
       /\ treeBits = 10
       /\ eob = <<0>>
       /\ table = EmptyObject
       /\ treeBits + DataBits(table, eob, data) = 11
       /\ payload = <<192, 0>>
  /\ (DecodedPayload /\ data = <<>>) =>
       /\ outcome = "none"
       /\ decoded = <<>>
       /\ trace.nread = 11

\* C6 witness: the empty buffer was encoded and the payload decoded
C6_Witness == DecodedPayload /\ data = <<>> /\ input = <<192, 0>> /\ trace.eobFound

\* C7: among the codes of the table and the EOB code no code is a prefix of,
\* or equal to, another.
C7_PrefixFree ==
  op = "encode" =>
    \A i, j \in 1..Len(AllCodes) : i # j => ~IsPrefix(AllCodes[i], AllCodes[j])

\* C7 witness: a table of three byte values whose codes differ in length
C7_Witness ==
  /\ op = "encode"
  /\ Cardinality(DOMAIN table) = 3
  /\ \E a, b \in DOMAIN table : Len(table[a]) < Len(table[b])

\* C8 (as claimed): once a bit has been requested after every bit of every
\* input byte was consumed, the call has failed with OutOfData; no bit was
\* fabricated and reading did not restart from the first byte.
C8_ReadBitOutOfData ==
  (op = "decode" /\ trace.pastEnd) =>
    /\ outcome = "OutOfData"
    /\ trace.fabricated = 0
    /\ ~trace.restarted

\* C9 (as claimed): generateTree's list holds the entries in the order in
\* which each byte value first occurs in the input, the EOB entry last.
C9_FirstOccurrenceOrder ==
  op = "encode" => occurrences = Append(FirstOccurrenceOrder(data), EobEntry)

\* C9 (amended): generateTree's list holds one entry per distinct byte value
\* of the input, with its number of occurrences, in ascending order of the
\* byte values, and the EOB entry of count 0 last.
C9_AscendingValueOrder ==
  op = "encode" =>
    LET n == Len(occurrences) - 1 IN
    /\ n >= 0
    /\ occurrences[n + 1] = [value |-> 0, count |-> 0, eob |-> TRUE]
    /\ {occurrences[i].value : i \in 1..n} = {data[k] : k \in 1..Len(data)}
    /\ \A i \in 1..n :
         /\ ~IsEob(occurrences[i])
         /\ occurrences[i].count = CountOf(data, occurrences[i].value)
    /\ \A i, j \in 1..n : i < j => occurrences[i].value < occurrences[j].value

\* C9 witness: an input whose first two bytes first occur in descending order
C9_Witness ==
  /\ op = "encode"
  /\ Len(data) >= 2
  /\ data[1] > data[2]
  /\ occurrences[1].value = data[2]

\* C10: the EOB code is at least as long as the code of every byte value.
C10_EobLongest == op = "encode" => \A b \in DOMAIN table : Len(eob) >= Len(table[b])

\* C10 witness: four byte values, one of them with a code shorter than EOB's
C10_Witness ==
  /\ op = "encode"
  /\ Cardinality(DOMAIN table) = 4
  /\ \E b \in DOMAIN table : Len(table[b]) < Len(eob)
===========================================================================
